---- MODULE Spec2Model ----
(***************************************************************************)
(* FusionBloomFilter: the toy Bloom filter (a set of digest bytes) and the *)
(* byte <-> 16x16 grid mapping of BloomFilter.py and Bitmap.py.            *)
(*                                                                         *)
(* Spec      a filter being built by create_bloom_filter's loop, one       *)
(*           add_to_bloom_filter call per entry and one bloom.add per      *)
(*           step, with item_in_bloom queries in between.                  *)
(* GridSpec  coordinates_from_byte / byte_for_coordinate applied to        *)
(*           inputs in and around their documented ranges, and the         *)
(*           inverse function applied to what they return.                 *)
(***************************************************************************)
EXTENDS Integers, Sequences, FiniteSets, TLC

(***************************************************************************)
(* Bounds and inputs.                                                      *)
(***************************************************************************)

\* Longest list of entries handed to create_bloom_filter.
MaxEntries == 3

\* How far outside 0..255 and 0..15 the grid functions' inputs go.
MaxOutside == 3

\* How many callers insert into the same set at the same time.
MaxInserters == 2

\* How many calls of the filter functions follow one another.
MaxCalls == 3

\* The item names: four of default_category_items (BloomFilter.py line 8).
\* Pear and Cucumber share their first digest byte; Banana repeats a byte
\* within its first ten.
Items == {"Tomato", "Banana", "Pear", "Cucumber"}

\* Values of num_hashes: the two the source uses (8, 10), the smallest
\* useful one, and the edges of what a 32-byte digest allows.
NumHashesChoices == {-1, 0, 1, 8, 10, 32, 33}

(***************************************************************************)
(* Python primitives used by the filter code.                              *)
(***************************************************************************)

\* str.encode('utf-8') of the item names (all ASCII).
encode(s) ==
    CASE s = "Tomato" -> <<84, 111, 109, 97, 116, 111>>
      [] s = "Banana" -> <<66, 97, 110, 97, 110, 97>>
      [] s = "Pear" -> <<80, 101, 97, 114>>
      [] s = "Cucumber" -> <<67, 117, 99, 117, 109, 98, 101, 114>>

\* hashlib.sha256(encoded_string).digest(): the real 32-byte digests.
sha256(encoded_string) ==
    CASE encoded_string = <<84, 111, 109, 97, 116, 111>> ->
           <<130, 137, 169, 132, 79, 213, 18, 95, 158, 204, 85, 182, 0, 218, 120, 118,
             111, 68, 248, 71, 125, 10, 144, 142, 41, 98, 251, 215, 126, 183, 131, 114>>
      [] encoded_string = <<66, 97, 110, 97, 110, 97>> ->
           <<249, 120, 45, 215, 153, 157, 193, 75, 57, 193, 50, 151, 53, 230, 228, 239,
             114, 231, 122, 60, 245, 250, 50, 242, 245, 123, 248, 213, 73, 63, 15, 197>>
      [] encoded_string = <<80, 101, 97, 114>> ->
           <<191, 112, 85, 46, 183, 101, 153, 44, 98, 34, 168, 194, 139, 105, 248, 174,
             135, 80, 187, 205, 14, 228, 175, 237, 52, 240, 202, 109, 176, 145, 209, 208>>
      [] encoded_string = <<67, 117, 99, 117, 109, 98, 101, 114>> ->
           <<191, 240, 217, 249, 7, 91, 112, 150, 175, 98, 251, 90, 41, 47, 72, 63,
             148, 108, 28, 236, 112, 33, 36, 248, 231, 158, 5, 73, 206, 47, 103, 121>>

range_has_one_short(i, n) == i < n - 1

range_has_one_more(i, n) == i < n + 1

range_has_clamped(i, n) == i < n /\ i < 32

\* `for i in range(n)`: the loop runs its body for i while i < n
\* (never, when n <= 0).
range_has(i, n) == i < n

\* sha256_hash[i] for i >= 0: defined while i < len(sha256_hash),
\* IndexError beyond.
index_in_bytes(sha256_hash, i) == i < Len(sha256_hash)

\* sha256_hash[i], Python's 0-based index on TLA+'s 1-based sequence.
byte_at(sha256_hash, i) == sha256_hash[i + 1]

set_add_replacing(s, e) == {e}

\* bloom.add(e)
set_add(s, e) == s \cup {e}

(***************************************************************************)
(* State.                                                                  *)
(***************************************************************************)
VARIABLES
    num_hashes,     \* the module-level num_hashes (Bitmap.py: the parameter)
    bloom,          \* the filter: create_bloom_filter's set
    entries,        \* the entries whose add_to_bloom_filter call has returned
    pc,             \* "idle" | "adding" | "raised"
    string_to_add,  \* add_to_bloom_filter's argument, while pc = "adding"
    i,              \* add_to_bloom_filter's loop index
    error,          \* the exception that left add_to_bloom_filter, or "none"
    result,         \* what the latest item_in_bloom call gave its caller
    g_pc,           \* grid: "off" | "start" | "mapped" | "back"
    g_arg,          \* grid: the argument tuple, <<b>> or <<x, y>>
    g_ret,          \* grid: what the first function returned
    g_back,         \* grid: what the inverse function returned for g_ret
    panel,          \* the filter's sketch: the cells visited and filled
    item_panel,     \* the latest item's sketch, and that item's index
    t_pc,           \* inserters: each one's "ready" | "adding" | "done"
    t_item,         \* inserters: each one's string_to_add
    t_i,            \* inserters: each one's loop index
    default_bloom,  \* Bitmap.py: add_to_32_bit_bloom_filter's default `bloom`
    d_calls,        \* how many calls of the filter functions were made
    d_ret           \* the latest such call: its arguments, what it returned
                    \* and the set it filled

filter_vars == <<num_hashes, bloom, entries, pc, string_to_add, i, error, result>>
grid_vars == <<g_pc, g_arg, g_ret, g_back>>
render_vars == <<panel, item_panel>>
conc_vars == <<t_pc, t_item, t_i>>
default_vars == <<default_bloom, d_calls, d_ret>>
vars == <<num_hashes, bloom, entries, pc, string_to_add, i, error, result,
          g_pc, g_arg, g_ret, g_back, panel, item_panel, t_pc, t_item, t_i,
          default_bloom, d_calls, d_ret>>

NoResult == [kind |-> "none", item |-> "", value |-> FALSE]

NoPanel == [kind |-> "none", item |-> "", index |-> 0,
            visited |-> <<>>, rects |-> <<>>]

(***************************************************************************)
(* The filter functions, run to completion.  A call's outcome is a record: *)
(* err is "none" or the exception that left it.                            *)
(***************************************************************************)

\* The loop of add_to_bloom_filter from index i on, over the set `b`.
RECURSIVE add_loop(_, _, _, _)
add_loop(sha256_hash, n, k, b) ==
    IF ~range_has(k, n) THEN [err |-> "none", bloom |-> b]
    ELSE IF ~index_in_bytes(sha256_hash, k) THEN [err |-> "IndexError", bloom |-> b]
    ELSE add_loop(sha256_hash, n, k + 1, set_add(b, byte_at(sha256_hash, k)))

\* add_to_bloom_filter(string_to_add, bloom), reading the global num_hashes.
add_to_bloom_filter(s, b) == add_loop(sha256(encode(s)), num_hashes, 0, b)

\* create_bloom_filter's loop over entries[k..], an exception leaving it at once.
RECURSIVE create_loop(_, _, _)
create_loop(es, k, b) ==
    IF k > Len(es) THEN [err |-> "none", bloom |-> b]
    ELSE LET r == add_to_bloom_filter(es[k], b)
         IN  IF r.err # "none" THEN r ELSE create_loop(es, k + 1, r.bloom)

\* create_bloom_filter(entries): a new set, then one add per entry.
create_bloom_filter(es) == create_loop(es, 1, {})

item_in_bloom_any(item, b) ==
    LET r == create_bloom_filter(<<item>>)
    IN  IF r.err # "none"
        THEN [kind |-> r.err, item |-> item, value |-> FALSE]
        ELSE [kind |-> "returned", item |-> item,
              value |-> ((r.bloom \cap b) # {})]

item_in_bloom_swapped(item, b) ==
    LET r == create_bloom_filter(<<item>>)
    IN  IF r.err # "none"
        THEN [kind |-> r.err, item |-> item, value |-> FALSE]
        ELSE [kind |-> "returned", item |-> item,
              value |-> ((r.bloom \cap b) = b)]

\* item_in_bloom(item, bloom): item_hash & bloom == item_hash.
item_in_bloom(item, b) ==
    LET r == create_bloom_filter(<<item>>)
    IN  IF r.err # "none"
        THEN [kind |-> r.err, item |-> item, value |-> FALSE]
        ELSE [kind |-> "returned", item |-> item,
              value |-> ((r.bloom \cap b) = r.bloom)]

(***************************************************************************)
(* Bitmap.py's copies of the filter functions: num_hashes is a parameter.  *)
(***************************************************************************)

add_to_32_bit_bloom_filter_eight(s, n, b) == add_loop(sha256(encode(s)), 8, 0, b)

\* add_to_32_bit_bloom_filter(string_to_add, num_hashes, bloom) with all
\* three arguments given, as create_bloom_filter calls it: the same loop
\* over the set it is handed.  (What it returns, the type `set`, is dropped
\* by create_bloom_filter.)
add_to_32_bit_bloom_filter(s, n, b) == add_loop(sha256(encode(s)), n, 0, b)

RECURSIVE Bitmap_create_loop(_, _, _, _)
Bitmap_create_loop(es, n, k, b) ==
    IF k > Len(es) THEN [err |-> "none", bloom |-> b]
    ELSE LET r == add_to_32_bit_bloom_filter(es[k], n, b)
         IN  IF r.err # "none" THEN r ELSE Bitmap_create_loop(es, n, k + 1, r.bloom)

\* Bitmap.py: create_bloom_filter(entries, num_hashes)
Bitmap_create_bloom_filter(es, n) == Bitmap_create_loop(es, n, 1, {})

\* Bitmap.py: item_in_bloom(item, bloom, num_hashes)
Bitmap_item_in_bloom(item, b, n) ==
    LET r == Bitmap_create_bloom_filter(<<item>>, n)
    IN  IF r.err # "none"
        THEN [kind |-> r.err, item |-> item, value |-> FALSE]
        ELSE [kind |-> "returned", item |-> item,
              value |-> ((r.bloom \cap b) = r.bloom)]

(***************************************************************************)
(* The grid functions (the same text in both files).  Python's & on        *)
(* unbounded two's-complement integers with a non-negative mask, >> as     *)
(* floor division, << as multiplication.                                   *)
(***************************************************************************)
RECURSIVE bit_and(_, _)
bit_and(a, mask) ==
    IF mask = 0 THEN 0
    ELSE (a % 2) * (mask % 2) + 2 * bit_and(a \div 2, mask \div 2)

shift_right(a, k) == a \div (2 ^ k)
shift_left(a, k) == a * (2 ^ k)

coordinates_from_byte_swapped(b) == <<bit_and(b, 15), shift_right(bit_and(b, 240), 4)>>

\* x = (b & 0xF0) >> 4; y = b & 0x0F; return x, y
coordinates_from_byte(b) == <<shift_right(bit_and(b, 240), 4), bit_and(b, 15)>>

\* return (y & 0xf) + ((x & 0xf) << 4)
byte_for_coordinate(x, y) == bit_and(y, 15) + shift_left(bit_and(x, 15), 4)

\* Bitmap.py: x = (b & 0xF0) >> 4; y = b & 0x0F; return x, y
Bitmap_coordinates_from_byte(b) == <<shift_right(bit_and(b, 240), 4), bit_and(b, 15)>>

\* Bitmap.py: return (y & 0xf) + ((x & 0xf) << 4)
Bitmap_byte_for_coordinate(x, y) == bit_and(y, 15) + shift_left(bit_and(x, 15), 4)

(***************************************************************************)
(* The renderer's cell loops.  A sketch is modelled by the cells the loops *)
(* visit, in order, and the cells they draw a rectangle for, in order.     *)
(***************************************************************************)
NoCells == [visited |-> <<>>, rects |-> <<>>]

\* byte_for_coordinate(grid_x, grid_y) for the cells the two loops visit.
cell_bytes ==
    [grid_x \in 0..15 |-> [grid_y \in 0..15 |-> byte_for_coordinate(grid_x, grid_y)]]

RECURSIVE draw_row_unconditional(_, _, _)
draw_row_unconditional(grid_x, grid_y, b) ==
    IF ~range_has(grid_y, 16) THEN NoCells
    ELSE LET later == draw_row_unconditional(grid_x, grid_y + 1, b)
         IN  [visited |-> <<<<grid_x, grid_y>>>> \o later.visited,
              rects |-> <<<<grid_x, grid_y>>>> \o later.rects]

\* The inner loop, from grid_y on: for grid_y in range(16): byte =
\* byte_for_coordinate(grid_x, grid_y); if byte in bloom: ...
\* lines.addTwoPointRectangle(p1, p2)
RECURSIVE draw_row(_, _, _)
draw_row(grid_x, grid_y, b) ==
    IF ~range_has(grid_y, 16) THEN NoCells
    ELSE LET byte == cell_bytes[grid_x][grid_y]
             later == draw_row(grid_x, grid_y + 1, b)
         IN  [visited |-> <<<<grid_x, grid_y>>>> \o later.visited,
              rects |-> IF byte \in b
                        THEN <<<<grid_x, grid_y>>>> \o later.rects
                        ELSE later.rects]

\* The outer loop, from grid_x on: for grid_x in range(16): <inner loop>
RECURSIVE draw_cells(_, _)
draw_cells(grid_x, b) ==
    IF ~range_has(grid_x, 16) THEN NoCells
    ELSE LET row == draw_row(grid_x, 0, b)
             later == draw_cells(grid_x + 1, b)
         IN  [visited |-> row.visited \o later.visited,
              rects |-> row.rects \o later.rects]

\* draw_bloom_grid(bloom, component, sketch): the cell rectangles.
draw_bloom_grid(b) == draw_cells(0, b)

\* draw_hash_sketches(item, component, plane): the cell rectangles of
\* sketch1, or the exception of create_bloom_filter([item]).
draw_hash_sketches(item) ==
    LET item_hash == create_bloom_filter(<<item>>)
    IN  IF item_hash.err # "none"
        THEN [kind |-> item_hash.err, item |-> item,
              visited |-> <<>>, rects |-> <<>>]
        ELSE LET cells == draw_cells(0, item_hash.bloom)
             IN  [kind |-> "item", item |-> item,
                  visited |-> cells.visited, rects |-> cells.rects]

\* Bitmap.py: draw_bloom_grid(bloom, component, sketch), the same loops.
Bitmap_draw_bloom_grid(b) == draw_cells(0, b)

\* Bitmap.py: draw_hash_sketches(item, num_hashes, plane, component).
Bitmap_draw_hash_sketches(item, n) ==
    LET item_hash == Bitmap_create_bloom_filter(<<item>>, n)
    IN  IF item_hash.err # "none"
        THEN [kind |-> item_hash.err, item |-> item,
              visited |-> <<>>, rects |-> <<>>]
        ELSE LET cells == draw_cells(0, item_hash.bloom)
             IN  [kind |-> "item", item |-> item,
                  visited |-> cells.visited, rects |-> cells.rects]

(***************************************************************************)
(* Spec: building and querying one filter.                                 *)
(***************************************************************************)
GridOff ==
    /\ g_pc = "off"
    /\ g_arg = <<>>
    /\ g_ret = <<>>
    /\ g_back = <<>>

\* No concurrent inserters.
ConcOff ==
    /\ t_pc = <<>>
    /\ t_item = <<>>
    /\ t_i = <<>>

NoCall == [fn |-> "none", items |-> <<>>, n |-> 0, returned |-> "none", filled |-> {}]

\* add_to_32_bit_bloom_filter's default set as the def statement made it,
\* no call made.
DefaultOff ==
    /\ default_bloom = {}
    /\ d_calls = 0
    /\ d_ret = NoCall

Init ==
    /\ num_hashes \in NumHashesChoices
    /\ bloom = {}
    /\ entries = <<>>
    /\ pc = "idle"
    /\ string_to_add = ""
    /\ i = 0
    /\ error = "none"
    /\ result = NoResult
    /\ panel = NoPanel
    /\ item_panel = NoPanel
    /\ GridOff
    /\ ConcOff
    /\ DefaultOff

\* create_bloom_filter's loop reaches the next entry and calls
\* add_to_bloom_filter(item, bloom): the digest is taken, the loop starts.
Insert(item) ==
    /\ pc = "idle"
    /\ Len(entries) < MaxEntries
    /\ pc' = "adding"
    /\ string_to_add' = item
    /\ i' = 0
    /\ result' = NoResult      \* the latest call's answer
    /\ UNCHANGED <<num_hashes, bloom, entries, error>>
    /\ UNCHANGED <<grid_vars, render_vars, conc_vars, default_vars>>

\* One iteration of the loop: bloom.add(sha256_hash[i]).
AddByte ==
    /\ pc = "adding"
    /\ range_has(i, num_hashes)
    /\ index_in_bytes(sha256(encode(string_to_add)), i)
    /\ bloom' = set_add(bloom, byte_at(sha256(encode(string_to_add)), i))
    /\ i' = i + 1
    /\ UNCHANGED <<num_hashes, entries, pc, string_to_add, error, result>>
    /\ UNCHANGED <<grid_vars, render_vars, conc_vars, default_vars>>

\* sha256_hash[i] beyond the digest: IndexError leaves add_to_bloom_filter
\* and, uncaught, create_bloom_filter.
AddRaise ==
    /\ pc = "adding"
    /\ range_has(i, num_hashes)
    /\ ~index_in_bytes(sha256(encode(string_to_add)), i)
    /\ pc' = "raised"
    /\ error' = "IndexError"
    /\ UNCHANGED <<num_hashes, bloom, entries, string_to_add, i, result>>
    /\ UNCHANGED <<grid_vars, render_vars, conc_vars, default_vars>>

\* The loop is over: add_to_bloom_filter returns.
AddReturn ==
    /\ pc = "adding"
    /\ ~range_has(i, num_hashes)
    /\ pc' = "idle"
    /\ entries' = Append(entries, string_to_add)
    /\ UNCHANGED <<num_hashes, bloom, string_to_add, i, error, result>>
    /\ UNCHANGED <<grid_vars, render_vars, conc_vars, default_vars>>

Contains_adding(item) ==
    /\ pc = "idle"
    /\ result' = item_in_bloom(item, bloom)
    /\ bloom' = add_to_bloom_filter(item, bloom).bloom
    /\ UNCHANGED <<num_hashes, entries, pc, string_to_add, i, error>>
    /\ UNCHANGED <<grid_vars, render_vars, conc_vars, default_vars>>

\* item_in_bloom(item, bloom) on the filter as it stands.
Contains(item) ==
    /\ pc = "idle"
    /\ result' = item_in_bloom(item, bloom)
    /\ UNCHANGED <<num_hashes, bloom, entries, pc, string_to_add, i, error>>
    /\ UNCHANGED <<grid_vars, render_vars, conc_vars, default_vars>>

Next ==
    \/ \E item \in Items : Insert(item)
    \/ AddByte
    \/ AddRaise
    \/ AddReturn
    \/ \E item \in Items : Contains(item)

Spec == Init /\ [][Next]_vars

(***************************************************************************)
(* RenderSpec: BloomCommandExecuteHandler.notify.  The filter is built     *)
(* from the items (create_bloom_filter, by the actions of Spec, with       *)
(* item_in_bloom queries allowed meanwhile), then handed to                *)
(* draw_bloom_component, then each item in turn to draw_hash_item.         *)
(***************************************************************************)
\* create_bloom_filter has returned: draw_bloom_component(bloom, name,
\* component), whose draw_bloom_grid draws the filter's cells.
DrawBloomComponent ==
    /\ pc = "idle"
    /\ pc' = "drawing"
    /\ panel' = LET cells == draw_bloom_grid(bloom)
                IN  [kind |-> "filter", item |-> "", index |-> 0,
                     visited |-> cells.visited, rects |-> cells.rects]
    /\ result' = NoResult      \* the latest call has no answer
    /\ UNCHANGED <<num_hashes, bloom, entries, string_to_add, i, error>>
    /\ UNCHANGED <<item_panel, grid_vars, conc_vars, default_vars>>

\* `for item in items: draw_hash_item(item, ...)`: the next item's
\* draw_hash_sketches.
DrawHashItem ==
    /\ pc = "drawing"
    /\ item_panel.index < Len(entries)
    /\ item_panel' = LET sketch == draw_hash_sketches(entries[item_panel.index + 1])
                     IN  [kind |-> sketch.kind, item |-> sketch.item,
                          index |-> item_panel.index + 1,
                          visited |-> sketch.visited, rects |-> sketch.rects]
    /\ UNCHANGED filter_vars
    /\ UNCHANGED <<panel, grid_vars, conc_vars, default_vars>>

RenderNext ==
    \/ \E item \in Items : Insert(item)
    \/ AddByte
    \/ AddRaise
    \/ AddReturn
    \/ \E item \in Items : Contains(item)
    \/ DrawBloomComponent
    \/ DrawHashItem

RenderSpec == Init /\ [][RenderNext]_vars

(***************************************************************************)
(* Claims about the filter, checked under Spec.                            *)
(***************************************************************************)

\* The first n bytes of an item's digest, as a set (n capped by the digest).
FirstBytes(item, n) ==
    LET d == sha256(encode(item))
    IN  {d[j] : j \in (1 .. n) \cap DOMAIN d}

\* The items of a sequence.
Range(seq) == {seq[k] : k \in 1 .. Len(seq)}

\* C1: no false negatives.  Every item whose insert has returned is reported
\* present by item_in_bloom on the filter as it stands, in every later state
\* (also in the middle of later inserts), and a query that was made for such
\* an item returned True.  The same for Bitmap.py: in the filter its
\* create_bloom_filter builds from the entries, its item_in_bloom finds each.
C1_NoFalseNegatives ==
    /\ \A k \in 1 .. Len(entries) :
          LET r == item_in_bloom(entries[k], bloom)
          IN  r.kind = "returned" /\ r.value
    /\ pc = "idle" =>
          LET f == Bitmap_create_bloom_filter(entries, num_hashes)
          IN  \A k \in 1 .. Len(entries) :
                 LET r == Bitmap_item_in_bloom(entries[k], f.bloom, num_hashes)
                 IN  f.err = "none" /\ r.kind = "returned" /\ r.value
    /\ (result.kind # "none" /\ result.item \in Range(entries))
          => (result.kind = "returned" /\ result.value)

\* C1 witness: with ten hashes, the first of three inserted items, followed
\* by a different one, was queried and found.
C1_Witness ==
    /\ num_hashes = 10
    /\ Len(entries) = 3
    /\ entries[2] # entries[1]
    /\ result.kind = "returned"
    /\ result.item = entries[1]
    /\ result.value

\* C2: the filter is exactly the union of the inserted items' sparse hashes.
\* Between inserts it equals the union, over the inserted items, of their
\* first num_hashes digest bytes; during an insert it is that union plus the
\* first i bytes of the item being added; and create_bloom_filter of no
\* entries is the empty set.  Bitmap.py's create_bloom_filter gives the same
\* union for the same entries.
C2_ElementsAreUnionOfSparseHashes ==
    LET done == UNION {FirstBytes(entries[k], num_hashes) : k \in 1 .. Len(entries)}
    IN  /\ pc = "idle" => bloom = done
        /\ pc = "adding" => bloom = done \cup FirstBytes(string_to_add, i)
        /\ create_bloom_filter(<<>>) = [err |-> "none", bloom |-> {}]
        /\ pc = "idle" =>
              Bitmap_create_bloom_filter(entries, num_hashes)
                  = [err |-> "none", bloom |-> done]
        /\ Bitmap_create_bloom_filter(<<>>, num_hashes)
              = [err |-> "none", bloom |-> {}]

\* C2 witness: two different items inserted with ten hashes.
C2_Witness ==
    /\ pc = "idle"
    /\ num_hashes = 10
    /\ Len(entries) = 2
    /\ entries[1] # entries[2]
    /\ Cardinality(bloom) > 10

\* C3: the filter is union-only.  No step, a single bloom.add included,
\* takes a byte out of the filter.
C3_UnionOnly == [][bloom \subseteq bloom']_vars

\* C3 witness: in the middle of a second insert, bytes have been added on
\* top of the first item's.
C3_Witness ==
    /\ pc = "adding"
    /\ Len(entries) = 1
    /\ string_to_add # entries[1]
    /\ i >= 2
    /\ FirstBytes(entries[1], num_hashes) # {}
    /\ FirstBytes(entries[1], num_hashes) \subseteq bloom

\* C4: item_in_bloom returns True exactly when every one of the candidate's
\* first num_hashes digest bytes is in the filter: the query made, and
\* Bitmap.py's item_in_bloom for every candidate on the same set.
C4_ContainsIffSubset ==
    /\ result.kind = "returned"
          => (result.value <=> FirstBytes(result.item, num_hashes) \subseteq bloom)
    /\ pc = "idle" =>
          \A item \in Items :
              LET r == Bitmap_item_in_bloom(item, bloom, num_hashes)
              IN  r.kind = "returned"
                      => (r.value <=> FirstBytes(item, num_hashes) \subseteq bloom)

\* C4 witness: a false positive.  An item that was never inserted is
\* reported present, its (non-empty) sparse hash being covered by the filter.
C4_Witness ==
    /\ num_hashes >= 1
    /\ entries # <<>>
    /\ result.kind = "returned"
    /\ result.item \notin Range(entries)
    /\ result.value

\* A query answered False because one byte of the candidate is missing while
\* others are present.
C4_MissingByteReached ==
    /\ result.kind = "returned"
    /\ ~result.value
    /\ FirstBytes(result.item, num_hashes) \cap bloom # {}

\* The entries with every repeat after the first dropped.
RECURSIVE Distinct(_)
Distinct(seq) ==
    IF seq = <<>> THEN <<>>
    ELSE LET front == SubSeq(seq, 1, Len(seq) - 1)
             last == seq[Len(seq)]
         IN  IF last \in Range(front) THEN Distinct(front)
             ELSE Append(Distinct(front), last)

\* C5: order independence.  When the last insert has returned, the filter
\* built entry by entry equals the one create_bloom_filter builds from any
\* permutation of the same entries, and the one it builds from each distinct
\* entry once; Bitmap.py's create_bloom_filter gives one set for every
\* permutation too.
C5_OrderIndependent ==
    (pc = "idle" /\ result = NoResult) =>
        /\ \A p \in Permutations(1 .. Len(entries)) :
              create_bloom_filter([k \in 1 .. Len(entries) |-> entries[p[k]]])
                  = [err |-> "none", bloom |-> bloom]
        /\ create_bloom_filter(Distinct(entries)) = [err |-> "none", bloom |-> bloom]
        /\ \A p \in Permutations(1 .. Len(entries)) :
              Bitmap_create_bloom_filter(
                  [k \in 1 .. Len(entries) |-> entries[p[k]]], num_hashes)
                  = Bitmap_create_bloom_filter(entries, num_hashes)

\* C5 witness: three entries, the first repeated as the third, a different
\* one between them.
C5_Witness ==
    /\ pc = "idle"
    /\ result = NoResult
    /\ num_hashes = 10
    /\ Len(entries) = 3
    /\ entries[1] = entries[3]
    /\ entries[1] # entries[2]

\* C7: num_hashes = 32 is accepted, anything above raises.  With 32, no
\* call raises and an item's sparse hash has at most 32 bytes.  Above 32,
\* add_to_bloom_filter, create_bloom_filter and item_in_bloom all end in the
\* IndexError of sha256_hash[32], which reaches the caller: no insert
\* returns, and no query returns a value.
C7_Above32Raises ==
    /\ num_hashes = 32 =>
          /\ error = "none"
          /\ pc # "raised"
          /\ result.kind \in {"none", "returned"}
          /\ pc = "idle" => \A item \in Items :
                /\ create_bloom_filter(<<item>>).err = "none"
                /\ Cardinality(create_bloom_filter(<<item>>).bloom) <= 32
                /\ item_in_bloom(item, bloom).kind = "returned"
                /\ Bitmap_create_bloom_filter(<<item>>, 32).err = "none"
    /\ num_hashes > 32 =>
          /\ entries = <<>>
          /\ pc = "adding" => i <= 32
          /\ pc = "raised" => (error = "IndexError" /\ i = 32)
          /\ result.kind \in {"none", "IndexError"}
          /\ pc = "idle" => \A item \in Items :
                /\ add_to_bloom_filter(item, bloom).err = "IndexError"
                /\ create_bloom_filter(<<item>>).err = "IndexError"
                /\ item_in_bloom(item, bloom).kind = "IndexError"
                /\ Bitmap_create_bloom_filter(<<item>>, num_hashes).err = "IndexError"
                /\ Bitmap_item_in_bloom(item, bloom, num_hashes).kind = "IndexError"

\* C7 witness: with num_hashes = 33 an insert has raised IndexError after
\* its 32 digest bytes.
C7_Witness ==
    /\ num_hashes = 33
    /\ pc = "raised"
    /\ error = "IndexError"
    /\ bloom = FirstBytes(string_to_add, 32)

\* With num_hashes = 32 an insert returned, fewer than 32 distinct bytes in
\* the set, and a query returned a value.
C7_AcceptedReached ==
    /\ num_hashes = 32
    /\ Len(entries) = 1
    /\ Cardinality(bloom) < 32
    /\ result.kind = "returned"

\* C8: num_hashes below 1 is rejected.  As claimed: with num_hashes < 1 no
\* insert returns and no query returns a value.
C8_BelowOneRejected ==
    num_hashes < 1 => (entries = <<>> /\ result.kind # "returned")

\* What the code does with num_hashes < 1: every insert returns having added
\* nothing, and every query returns True.
C8_BelowOneAccepted ==
    num_hashes < 1 =>
        /\ bloom = {}
        /\ error = "none"
        /\ result.kind = "returned" => result.value

\* C10: size bounds, for num_hashes >= 0.  Every element of the filter and
\* of an item's sparse hash is in 0..255; a sparse hash has at most
\* num_hashes elements; after k inserts the filter has at most
\* num_hashes * k elements and at least as many as each inserted item's
\* sparse hash.
C10_SizeBounds ==
    num_hashes >= 0 =>
        /\ bloom \subseteq 0 .. 255
        /\ \A item \in Items :
              LET r == create_bloom_filter(<<item>>)
              IN  r.err = "none" =>
                      /\ r.bloom \subseteq 0 .. 255
                      /\ Cardinality(r.bloom) <= num_hashes
        /\ pc = "idle" =>
              /\ Cardinality(bloom) <= num_hashes * Len(entries)
              /\ \A k \in 1 .. Len(entries) :
                    Cardinality(bloom) >=
                        Cardinality(create_bloom_filter(<<entries[k]>>).bloom)

\* C10 witness: three different items inserted with ten hashes, one of them
\* (Banana) with a repeated byte, so its sparse hash is smaller than ten and
\* the filter smaller than thirty.
C10_Witness ==
    /\ pc = "idle"
    /\ num_hashes = 10
    /\ Len(entries) = 3
    /\ Cardinality(Range(entries)) = 3
    /\ \E k \in 1 .. 3 : Cardinality(create_bloom_filter(<<entries[k]>>).bloom) < 10
    /\ Cardinality(bloom) < 30
    /\ Cardinality(bloom) > 10

\* The grid functions of the two files return the same for every argument,
\* in range or outside.
GridFunctionsAgree ==
    /\ \A b \in (0 - MaxOutside) .. (255 + MaxOutside) :
          Bitmap_coordinates_from_byte(b) = coordinates_from_byte(b)
    /\ \A x, y \in (0 - MaxOutside) .. (15 + MaxOutside) :
          Bitmap_byte_for_coordinate(x, y) = byte_for_coordinate(x, y)

\* C15: the two files hold the same algorithm.  With num_hashes in 1..32,
\* Bitmap.py's create_bloom_filter(entries, num_hashes) returns the set
\* BloomFilter.py's create_bloom_filter(entries) builds, Bitmap.py's
\* item_in_bloom answers as BloomFilter.py's does for every candidate (and as
\* the query that was made), and the grid functions of the two files agree
\* on every argument.
C15_ImplementationsAgree ==
    /\ (pc = "idle" /\ num_hashes \in 1 .. 32) =>
          /\ Bitmap_create_bloom_filter(entries, num_hashes) =
                 [err |-> "none", bloom |-> bloom]
          /\ Bitmap_create_bloom_filter(entries, num_hashes) =
                 create_bloom_filter(entries)
          /\ \A item \in Items :
                 Bitmap_item_in_bloom(item, bloom, num_hashes) = item_in_bloom(item, bloom)
          /\ result.kind # "none" =>
                 result = Bitmap_item_in_bloom(result.item, bloom, num_hashes)
    /\ GridFunctionsAgree

\* C15 witness: with one hash per item, Cucumber was looked up in the filter
\* of Pear alone and reported present (they share their first byte); both
\* files say so.
C15_Witness ==
    /\ num_hashes = 1
    /\ pc = "idle"
    /\ entries = <<"Pear">>
    /\ result = [kind |-> "returned", item |-> "Cucumber", value |-> TRUE]
    /\ Bitmap_item_in_bloom("Cucumber", bloom, 1).value

\* Three items at ten hashes each, built alike by both files.
C15_ThreeItemsReached ==
    /\ num_hashes = 10
    /\ pc = "idle"
    /\ entries = <<"Tomato", "Banana", "Pear">>
    /\ Bitmap_create_bloom_filter(entries, 10).bloom = bloom
    /\ Cardinality(bloom) > 20

\* C11: item_in_bloom and the renderer leave the filter alone.  Every step
\* that changes the filter is a bloom.add inside an insert; a step that
\* delivers a query's answer or a drawn panel leaves the filter exactly as
\* it was.
C11_OnlyInsertChangesElements ==
    [][/\ bloom' # bloom => (pc = "adding" /\ pc' = "adding" /\ i' = i + 1)
       /\ result'.kind # "none" => bloom' = bloom
       /\ panel' # panel => bloom' = bloom
       /\ item_panel' # item_panel => bloom' = bloom]_vars

\* C11 witness: on a filter of two items, a candidate that was not inserted
\* was queried, and the filter is still exactly the two items' bytes.
C11_Witness ==
    /\ num_hashes = 10
    /\ Len(entries) = 2
    /\ result.kind = "returned"
    /\ result.item \notin Range(entries)
    /\ bloom = FirstBytes(entries[1], 10) \cup FirstBytes(entries[2], 10)

\* The filter was drawn and is still exactly the two items' bytes.
C11_DrawnReached ==
    /\ num_hashes = 10
    /\ Len(entries) = 2
    /\ panel.kind = "filter"
    /\ item_panel.index = 2
    /\ bloom = FirstBytes(entries[1], 10) \cup FirstBytes(entries[2], 10)

\* The 256 cells of the grid.
Cells == (0 .. 15) \X (0 .. 15)

\* A panel drawn for the set `elements`: the loops visited each of the 256
\* cells once, and drew one rectangle for each cell whose byte is in the set
\* and none for any other cell.
DrawnFor(p, elements) ==
    /\ Len(p.visited) = 256
    /\ Range(p.visited) = Cells
    /\ Cardinality(Range(p.rects)) = Len(p.rects)
    /\ Range(p.rects) = {c \in Cells : cell_bytes[c[1]][c[2]] \in elements}
    /\ Len(p.rects) = Cardinality(elements)

\* C14: the renderer visits each of the 256 cells (x, y) of 0..15 x 0..15
\* exactly once and fills a cell exactly when byte_for_coordinate(x, y) is in
\* the set it renders: the filter for the filter's panel, the item's own
\* one-item filter for an item's panel.  So the filled cells are as many as
\* the set's elements, and every cell filled on an inserted item's panel is
\* filled on the filter's panel too.  Bitmap.py's loops draw the same cells.
C14_FilledCellsAreElements ==
    /\ panel.kind = "filter" => DrawnFor(panel, bloom)
    /\ item_panel.kind = "item" =>
          /\ item_panel.item = entries[item_panel.index]
          /\ DrawnFor(item_panel, FirstBytes(item_panel.item, num_hashes))
          /\ Range(item_panel.rects) \subseteq Range(panel.rects)
          /\ item_panel.index <= 2 =>       \* Bitmap.py draws items[0:2]
                LET sketch == Bitmap_draw_hash_sketches(item_panel.item, num_hashes)
                IN  /\ sketch.visited = item_panel.visited
                    /\ sketch.rects = item_panel.rects
    /\ (panel.kind = "filter" /\ item_panel.index = 0) =>
          LET cells == Bitmap_draw_bloom_grid(bloom)
          IN  /\ cells.visited = panel.visited
              /\ cells.rects = panel.rects

\* C14 witness: the filter of Pear and Banana is drawn with 18 filled cells
\* (Banana repeats a byte, and shares one with Pear), then Pear's panel and
\* Banana's with 9.
C14_Witness ==
    /\ num_hashes = 10
    /\ entries = <<"Pear", "Banana">>
    /\ panel.kind = "filter"
    /\ Len(panel.visited) = 256
    /\ Len(panel.rects) = 18
    /\ item_panel.kind = "item"
    /\ item_panel.item = "Banana"
    /\ Len(item_panel.rects) = 9

(***************************************************************************)
(* GridSpec: the grid functions on their own.                              *)
(***************************************************************************)
ByteInputs == (0 - MaxOutside) .. (255 + MaxOutside)
CoordinateInputs == (0 - MaxOutside) .. (15 + MaxOutside)

GridInit ==
    /\ num_hashes = 10
    /\ bloom = {}
    /\ entries = <<>>
    /\ pc = "idle"
    /\ string_to_add = ""
    /\ i = 0
    /\ error = "none"
    /\ result = NoResult
    /\ panel = NoPanel
    /\ item_panel = NoPanel
    /\ ConcOff
    /\ DefaultOff
    /\ g_pc = "start"
    /\ g_arg \in {<<b>> : b \in ByteInputs}
                 \cup {<<x, y>> : x \in CoordinateInputs, y \in CoordinateInputs}
    /\ g_ret = <<>>
    /\ g_back = <<>>

\* coordinates_from_byte(b) is called; it returns (no path of it raises).
CallCoordinatesFromByte ==
    /\ g_pc = "start"
    /\ Len(g_arg) = 1
    /\ g_ret' = coordinates_from_byte(g_arg[1])
    /\ g_pc' = "mapped"
    /\ UNCHANGED <<g_arg, g_back>>
    /\ UNCHANGED filter_vars
    /\ UNCHANGED <<render_vars, conc_vars, default_vars>>

\* byte_for_coordinate(x, y) is called; it returns (no path of it raises).
CallByteForCoordinate ==
    /\ g_pc = "start"
    /\ Len(g_arg) = 2
    /\ g_ret' = <<byte_for_coordinate(g_arg[1], g_arg[2])>>
    /\ g_pc' = "mapped"
    /\ UNCHANGED <<g_arg, g_back>>
    /\ UNCHANGED filter_vars
    /\ UNCHANGED <<render_vars, conc_vars, default_vars>>

\* The other function applied to what the first returned.
CallInverse ==
    /\ g_pc = "mapped"
    /\ g_back' = IF Len(g_ret) = 1
                 THEN coordinates_from_byte(g_ret[1])
                 ELSE <<byte_for_coordinate(g_ret[1], g_ret[2])>>
    /\ g_pc' = "back"
    /\ UNCHANGED <<g_arg, g_ret>>
    /\ UNCHANGED filter_vars
    /\ UNCHANGED <<render_vars, conc_vars, default_vars>>

GridNext ==
    \/ CallCoordinatesFromByte
    \/ CallByteForCoordinate
    \/ CallInverse

GridSpec == GridInit /\ [][GridNext]_vars

(***************************************************************************)
(* Claims about the grid functions, checked under GridSpec.                *)
(***************************************************************************)
ValidArgument(arg) ==
    IF Len(arg) = 1 THEN arg[1] \in 0 .. 255
    ELSE arg[1] \in 0 .. 15 /\ arg[2] \in 0 .. 15

\* C6: the grid mapping is a bijection between 0..255 and 0..15 x 0..15.
\* For b in 0..255, coordinates_from_byte gives x = b's high nibble and
\* y = its low nibble, both in 0..15, and byte_for_coordinate maps them back
\* to b; for x, y in 0..15, byte_for_coordinate gives 16 * x + y in 0..255,
\* and coordinates_from_byte maps it back to (x, y).
C6_GridBijection ==
    (g_pc \in {"mapped", "back"} /\ ValidArgument(g_arg)) =>
        /\ Len(g_arg) = 1 =>
              /\ g_ret = <<g_arg[1] \div 16, g_arg[1] % 16>>
              /\ g_ret[1] \in 0 .. 15
              /\ g_ret[2] \in 0 .. 15
        /\ Len(g_arg) = 2 =>
              /\ g_ret = <<16 * g_arg[1] + g_arg[2]>>
              /\ g_ret[1] \in 0 .. 255
        /\ g_pc = "back" => g_back = g_arg

\* C6 witness: 0xA5 went to (10, 5) and back.
C6_Witness ==
    /\ g_pc = "back"
    /\ g_arg = <<165>>
    /\ g_ret = <<10, 5>>
    /\ g_back = <<165>>

\* (3, 12) went to 0x3C and back.
C6_CoordinateRoundTripReached ==
    /\ g_pc = "back"
    /\ g_arg = <<3, 12>>
    /\ g_ret = <<60>>
    /\ g_back = <<3, 12>>

\* C9: out-of-range arguments are rejected.  As claimed: neither grid
\* function returns a value for an argument outside its range.
C9_OutOfRangeRejected ==
    g_pc \in {"mapped", "back"} => ValidArgument(g_arg)

\* What the code does with an out-of-range argument: it returns the cell or
\* byte of the argument's low bits (b mod 256, x mod 16, y mod 16).
C9_OutOfRangeWraps ==
    g_pc \in {"mapped", "back"} =>
        /\ Len(g_arg) = 1 =>
              g_ret = <<(g_arg[1] % 256) \div 16, g_arg[1] % 16>>
        /\ Len(g_arg) = 2 =>
              g_ret = <<16 * (g_arg[1] % 16) + (g_arg[2] % 16)>>


(***************************************************************************)
(* ConcSpec: several callers run add_to_bloom_filter(item, bloom) on the   *)
(* same set at the same time.  Each caller has its own string_to_add,      *)
(* sha256_hash and i; a step is one iteration of one caller's loop.        *)
(* bloom.add is one call into the set object, which the interpreter runs   *)
(* to its end before another thread's bytecode.                            *)
(***************************************************************************)
Inserters == 1 .. MaxInserters

\* num_hashes as the source sets it (Bitmap.py's default 8, the handlers'
\* 10) and the smallest filter.
ConcNumHashes == {1, 8, 10}

ConcInit ==
    /\ num_hashes \in ConcNumHashes
    /\ bloom = {}
    /\ entries = <<>>
    /\ pc = "idle"
    /\ string_to_add = ""
    /\ i = 0
    /\ error = "none"
    /\ result = NoResult
    /\ panel = NoPanel
    /\ item_panel = NoPanel
    /\ GridOff
    /\ t_pc = [t \in Inserters |-> "ready"]
    /\ t_item = [t \in Inserters |-> ""]
    /\ t_i = [t \in Inserters |-> 0]
    /\ DefaultOff

\* Caller t enters add_to_bloom_filter(item, bloom): the digest is taken.
ConcCall(t, item) ==
    /\ t_pc[t] = "ready"
    /\ t_pc' = [t_pc EXCEPT ![t] = "adding"]
    /\ t_item' = [t_item EXCEPT ![t] = item]
    /\ t_i' = [t_i EXCEPT ![t] = 0]
    /\ UNCHANGED <<filter_vars, grid_vars, render_vars, default_vars>>

ConcAddByte_stale(t) ==
    /\ t_pc[t] = "adding"
    /\ range_has(t_i[t], num_hashes)
    /\ index_in_bytes(sha256(encode(t_item[t])), t_i[t])
    /\ bloom' = set_add({byte_at(sha256(encode(t_item[t])), j) : j \in 0 .. t_i[t] - 1},
                        byte_at(sha256(encode(t_item[t])), t_i[t]))
    /\ t_i' = [t_i EXCEPT ![t] = @ + 1]
    /\ UNCHANGED <<num_hashes, entries, pc, string_to_add, i, error, result>>
    /\ UNCHANGED <<t_pc, t_item, grid_vars, render_vars, default_vars>>

\* One iteration of caller t's loop: bloom.add(sha256_hash[i]) on the
\* shared set.
ConcAddByte(t) ==
    /\ t_pc[t] = "adding"
    /\ range_has(t_i[t], num_hashes)
    /\ index_in_bytes(sha256(encode(t_item[t])), t_i[t])
    /\ bloom' = set_add(bloom, byte_at(sha256(encode(t_item[t])), t_i[t]))
    /\ t_i' = [t_i EXCEPT ![t] = @ + 1]
    /\ UNCHANGED <<num_hashes, entries, pc, string_to_add, i, error, result>>
    /\ UNCHANGED <<t_pc, t_item, grid_vars, render_vars, default_vars>>

\* Caller t's loop is over: its add_to_bloom_filter returns.
ConcReturn(t) ==
    /\ t_pc[t] = "adding"
    /\ ~range_has(t_i[t], num_hashes)
    /\ t_pc' = [t_pc EXCEPT ![t] = "done"]
    /\ UNCHANGED <<filter_vars, grid_vars, render_vars, default_vars>>
    /\ UNCHANGED <<t_item, t_i>>

ConcNext ==
    \/ \E t \in Inserters, item \in Items : ConcCall(t, item)
    \/ \E t \in Inserters : ConcAddByte(t)
    \/ \E t \in Inserters : ConcReturn(t)

ConcSpec == ConcInit /\ [][ConcNext]_vars

(***************************************************************************)
(* Claims about concurrent insertion, checked under ConcSpec.              *)
(***************************************************************************)

\* C12: concurrent insertion is safe.  At every moment the shared set holds
\* exactly the bytes the callers have added so far (none is lost), and once
\* every caller has returned it is the set create_bloom_filter builds from
\* the same items one after the other: the union of the items' sparse
\* hashes.
C12_ConcurrentInsertionSafe ==
    /\ bloom = UNION {FirstBytes(t_item[t], t_i[t]) :
                          t \in {u \in Inserters : t_pc[u] # "ready"}}
    /\ (\A t \in Inserters : t_pc[t] = "done") =>
          /\ bloom = create_bloom_filter(t_item).bloom
          /\ bloom = UNION {add_to_bloom_filter(t_item[t], {}).bloom : t \in Inserters}

\* C12 witness: two callers with different items whose loops were
\* interleaved (both were part-way at the same time).
C12_Witness ==
    /\ num_hashes = 10
    /\ t_item[1] = "Tomato"
    /\ t_item[2] = "Banana"
    /\ t_pc[1] = "adding" /\ t_i[1] = 4
    /\ t_pc[2] = "adding" /\ t_i[2] = 6
    /\ bloom = FirstBytes("Tomato", 4) \cup FirstBytes("Banana", 6)

\* Both interleaved callers have returned.
C12_AllDoneReached ==
    /\ num_hashes = 10
    /\ \A t \in Inserters : t_pc[t] = "done"
    /\ t_item[1] # t_item[2]
    /\ Cardinality(bloom) > 10


(***************************************************************************)
(* DefaultSpec: calls of the filter functions one after another, in one    *)
(* interpreter.  Bitmap.py's add_to_32_bit_bloom_filter has the default    *)
(* argument `bloom = set()`: Python evaluates it once, when the def        *)
(* statement runs, and every call that omits bloom works on that one set.  *)
(***************************************************************************)

\* `num_hashes = 8`, the default of Bitmap.py's create_bloom_filter and
\* add_to_32_bit_bloom_filter.
default_num_hashes == 8

\* num_hashes where a call passes it: the handler's value.
CallNumHashes == {10}

\* The lists handed to create_bloom_filter: one or two items.
CallEntries == {<<a>> : a \in Items} \cup {<<a, b>> : a \in Items, b \in Items}

DefaultInit ==
    /\ num_hashes = 10
    /\ bloom = {}
    /\ entries = <<>>
    /\ pc = "idle"
    /\ string_to_add = ""
    /\ i = 0
    /\ error = "none"
    /\ result = NoResult
    /\ panel = NoPanel
    /\ item_panel = NoPanel
    /\ GridOff
    /\ ConcOff
    /\ DefaultOff

\* add_to_32_bit_bloom_filter(item): only the string is passed.  The loop
\* adds to the default set; `return set` hands back the type.
CallAddToFilter(item) ==
    /\ d_calls < MaxCalls
    /\ LET r == add_to_32_bit_bloom_filter(item, default_num_hashes, default_bloom)
       IN  /\ default_bloom' = r.bloom
           /\ d_ret' = [fn |-> "add_to_32_bit_bloom_filter", items |-> <<item>>,
                        n |-> default_num_hashes, returned |-> "type set",
                        filled |-> r.bloom]
    /\ d_calls' = d_calls + 1
    /\ UNCHANGED <<filter_vars, grid_vars, render_vars, conc_vars>>

\* add_to_32_bit_bloom_filter(item, n): bloom is omitted again.
CallAddToFilterWith(item, n) ==
    /\ d_calls < MaxCalls
    /\ LET r == add_to_32_bit_bloom_filter(item, n, default_bloom)
       IN  /\ default_bloom' = r.bloom
           /\ d_ret' = [fn |-> "add_to_32_bit_bloom_filter", items |-> <<item>>,
                        n |-> n, returned |-> "type set", filled |-> r.bloom]
    /\ d_calls' = d_calls + 1
    /\ UNCHANGED <<filter_vars, grid_vars, render_vars, conc_vars>>

\* Bitmap.py: create_bloom_filter(es), num_hashes left at its default.
\* It makes its own set and passes it on; the default set is not used.
CallBitmapCreate(es) ==
    /\ d_calls < MaxCalls
    /\ LET r == Bitmap_create_bloom_filter(es, default_num_hashes)
       IN  d_ret' = [fn |-> "create_bloom_filter", items |-> es,
                     n |-> default_num_hashes, returned |-> "set",
                     filled |-> r.bloom]
    /\ d_calls' = d_calls + 1
    /\ UNCHANGED <<filter_vars, grid_vars, render_vars, conc_vars, default_bloom>>

\* BloomFilter.py: create_bloom_filter(es), with the module's num_hashes.
CallCreate(es) ==
    /\ d_calls < MaxCalls
    /\ LET r == create_bloom_filter(es)
       IN  d_ret' = [fn |-> "create_bloom_filter", items |-> es,
                     n |-> num_hashes, returned |-> "set", filled |-> r.bloom]
    /\ d_calls' = d_calls + 1
    /\ UNCHANGED <<filter_vars, grid_vars, render_vars, conc_vars, default_bloom>>

DefaultNext ==
    \/ \E item \in Items : CallAddToFilter(item)
    \/ \E item \in Items, n \in CallNumHashes : CallAddToFilterWith(item, n)
    \/ \E es \in CallEntries : CallBitmapCreate(es)
    \/ \E es \in CallEntries : CallCreate(es)

DefaultSpec == DefaultInit /\ [][DefaultNext]_vars

(***************************************************************************)
(* Claims about sets shared between calls, checked under DefaultSpec.      *)
(***************************************************************************)

\* The bytes of a call's own items.
OwnBytes(call) == UNION {FirstBytes(call.items[k], call.n) : k \in 1 .. Len(call.items)}

\* C13: every call works on a set of its own.  After any sequence of calls,
\* the set the latest call filled holds the bytes of that call's own items
\* and nothing else, whatever items the earlier calls hashed.
C13_FreshSetPerCall ==
    d_ret.fn # "none" => d_ret.filled = OwnBytes(d_ret)

\* The part of C13 the code keeps: create_bloom_filter, in both files,
\* returns a set holding its own entries' bytes only.
C13_CreateIsFresh ==
    d_ret.fn = "create_bloom_filter" =>
        /\ d_ret.returned = "set"
        /\ d_ret.filled = OwnBytes(d_ret)

\* add_to_32_bit_bloom_filter("Banana") after an earlier
\* add_to_32_bit_bloom_filter("Tomato"): the set it filled also holds
\* Tomato's bytes, and what it returned is the type, not a set.
C13_SharedDefaultReached ==
    /\ d_ret.fn = "add_to_32_bit_bloom_filter"
    /\ d_ret.items = <<"Banana">>
    /\ d_ret.n = default_num_hashes
    /\ d_ret.returned = "type set"
    /\ d_calls = 2
    /\ d_ret.filled = FirstBytes("Banana", 8) \cup FirstBytes("Tomato", 8)
    /\ d_ret.filled # FirstBytes("Banana", 8)

====
